---------------------------- MODULE Spec2Model ----------------------------
(***************************************************************************)
(* The "os" prompt segment of starship: the symbols table of OSConfig      *)
(* (src/src/configs/os.rs) and the module that renders it                  *)
(* (src/src/modules/os.rs).                                                *)
(*                                                                         *)
(* Strings are sequences of characters.  An ASCII character is the         *)
(* one-character string itself; any other Unicode scalar value is written  *)
(* "U+XXXX".  Option<T> is a sequence of length 0 (None) or 1 (Some).      *)
(***************************************************************************)
EXTENDS Integers, Sequences, FiniteSets, TLC

VARIABLES
    pc,           \* position of the operation in progress
    rawcfg,       \* the user's configuration document for [os]
    config,       \* Option<OSConfig>: the loaded configuration
    host,         \* os_info::Info: what the OS attribute reader answers on this host
    os,           \* Option<os_info::Info>: the descriptor module() obtained
    called,       \* name of the pure function last applied
    result,       \* Option<String>: what that function returned
    readerCalls,  \* number of queries of the OS attribute reader
    formatter,    \* Option<StringFormatter>: variables mapped so far
    parsed,       \* Option<Result<segments>>: what StringFormatter produced
    trace,        \* callbacks run in this render, in order
    segments,     \* Option<segments>: what set_segments stored on the module
    ret,          \* Option<Module>: the value module() returned
    warnings      \* number of log::warn! calls

vars == <<pc, rawcfg, host, config, os, called, result, readerCalls, formatter, parsed,
          trace, segments, ret, warnings>>

None == <<>>
Some(x) == <<x>>
IsSome(o) == Len(o) = 1
Unwrap(o) == o[1]

(*************************** characters and case ***************************)
UpperChars == <<"A", "B", "C", "D", "E", "F", "G", "H", "I", "J", "K", "L", "M",
                "N", "O", "P", "Q", "R", "S", "T", "U", "V", "W", "X", "Y", "Z">>
LowerChars == <<"a", "b", "c", "d", "e", "f", "g", "h", "i", "j", "k", "l", "m",
                "n", "o", "p", "q", "r", "s", "t", "u", "v", "w", "x", "y", "z">>

\* char lowercasing: of the characters used here only A-Z have a lowercase form
CharToLower(c) ==
    IF \E i \in 1..Len(UpperChars) : UpperChars[i] = c
    THEN LowerChars[CHOOSE i \in 1..Len(UpperChars) : UpperChars[i] = c]
    ELSE c

\* a conversion that keeps the author's casing (what forgetting the call does)
to_lowercase_forgotten(s) == s

\* str::to_lowercase
to_lowercase(s) == [i \in 1..Len(s) |-> CharToLower(s[i])]

(******************************** IndexMap *********************************)
\* An IndexMap is a sequence of <<key, value>> with distinct keys, in
\* insertion order.
IndexMapKeys(m) == {m[i][1] : i \in 1..Len(m)}

\* IndexMap::get(key).cloned(): exact key equality
IndexMapGet(m, k) ==
    IF k \in IndexMapKeys(m)
    THEN Some(m[CHOOSE i \in 1..Len(m) : m[i][1] = k][2])
    ELSE None

Indices(pairs) == [i \in 1..Len(pairs) |-> i]
FirstOf(pairs, k) ==
    CHOOSE i \in 1..Len(pairs) :
        pairs[i][1] = k /\ \A j \in 1..Len(pairs) : pairs[j][1] = k => i <= j
LastOf(pairs, k) ==
    CHOOSE i \in 1..Len(pairs) :
        pairs[i][1] = k /\ \A j \in 1..Len(pairs) : pairs[j][1] = k => j <= i

\* a collect in which a key that comes again keeps its first value
IndexMapCollectKeepFirst(pairs) ==
    LET firsts == SelectSeq(Indices(pairs), LAMBDA i : FirstOf(pairs, pairs[i][1]) = i)
    IN  [n \in 1..Len(firsts) |-> pairs[firsts[n]]]

\* FromIterator for IndexMap (.collect(), indexmap!): every pair is inserted in
\* iteration order, so a key stands where it first came and holds the value
\* it last came with
IndexMapCollect(pairs) ==
    LET firsts == SelectSeq(Indices(pairs), LAMBDA i : FirstOf(pairs, pairs[i][1]) = i)
    IN  [n \in 1..Len(firsts) |->
            <<pairs[firsts[n]][1], pairs[LastOf(pairs, pairs[firsts[n]][1])][2]>>]

(************************** os_info::Type, configs *************************)
\* os_info::Type with its derived Debug text, format!("{:?}", t)
TypeDebugTable ==
    [ Alpine |-> <<"A", "l", "p", "i", "n", "e">>,
      Amazon |-> <<"A", "m", "a", "z", "o", "n">>,
      Android |-> <<"A", "n", "d", "r", "o", "i", "d">>,
      Arch |-> <<"A", "r", "c", "h">>,
      CentOS |-> <<"C", "e", "n", "t", "O", "S">>,
      Debian |-> <<"D", "e", "b", "i", "a", "n">>,
      DragonFly |-> <<"D", "r", "a", "g", "o", "n", "F", "l", "y">>,
      Emscripten |-> <<"E", "m", "s", "c", "r", "i", "p", "t", "e", "n">>,
      EndeavourOS |-> <<"E", "n", "d", "e", "a", "v", "o", "u", "r", "O", "S">>,
      Fedora |-> <<"F", "e", "d", "o", "r", "a">>,
      FreeBSD |-> <<"F", "r", "e", "e", "B", "S", "D">>,
      Garuda |-> <<"G", "a", "r", "u", "d", "a">>,
      Gentoo |-> <<"G", "e", "n", "t", "o", "o">>,
      HardenedBSD |-> <<"H", "a", "r", "d", "e", "n", "e", "d", "B", "S", "D">>,
      Illumos |-> <<"I", "l", "l", "u", "m", "o", "s">>,
      Linux |-> <<"L", "i", "n", "u", "x">>,
      Macos |-> <<"M", "a", "c", "o", "s">>,
      Manjaro |-> <<"M", "a", "n", "j", "a", "r", "o">>,
      Mariner |-> <<"M", "a", "r", "i", "n", "e", "r">>,
      MidnightBSD |-> <<"M", "i", "d", "n", "i", "g", "h", "t", "B", "S", "D">>,
      Mint |-> <<"M", "i", "n", "t">>,
      NetBSD |-> <<"N", "e", "t", "B", "S", "D">>,
      NixOS |-> <<"N", "i", "x", "O", "S">>,
      OpenBSD |-> <<"O", "p", "e", "n", "B", "S", "D">>,
      openSUSE |-> <<"o", "p", "e", "n", "S", "U", "S", "E">>,
      OracleLinux |-> <<"O", "r", "a", "c", "l", "e", "L", "i", "n", "u", "x">>,
      Pop |-> <<"P", "o", "p">>,
      Raspbian |-> <<"R", "a", "s", "p", "b", "i", "a", "n">>,
      Redhat |-> <<"R", "e", "d", "h", "a", "t">>,
      RedHatEnterprise |-> <<"R", "e", "d", "H", "a", "t", "E", "n", "t", "e", "r", "p", "r", "i", "s", "e">>,
      Redox |-> <<"R", "e", "d", "o", "x">>,
      Solus |-> <<"S", "o", "l", "u", "s">>,
      SUSE |-> <<"S", "U", "S", "E">>,
      Ubuntu |-> <<"U", "b", "u", "n", "t", "u">>,
      Unknown |-> <<"U", "n", "k", "n", "o", "w", "n">>,
      Windows |-> <<"W", "i", "n", "d", "o", "w", "s">> ]

Types == DOMAIN TypeDebugTable

\* format!("{:?}", os.os_type())
TypeDebug(t) == TypeDebugTable[t]

\* the symbols of OSConfig::default(), as the indexmap! literal lists them
DefaultSymbolEntries ==
    << <<to_lowercase(<<"A", "l", "p", "i", "n", "e">>), <<"U+1F3D4", "U+FE0F", " ">>>>,
       <<to_lowercase(<<"A", "m", "a", "z", "o", "n">>), <<"U+1F642", " ">>>>,
       <<to_lowercase(<<"A", "n", "d", "r", "o", "i", "d">>), <<"U+1F916", " ">>>>,
       <<to_lowercase(<<"A", "r", "c", "h">>), <<"U+1F397", "U+FE0F", " ">>>>,
       <<to_lowercase(<<"C", "e", "n", "t", "O", "S">>), <<"U+1F4A0", " ">>>>,
       <<to_lowercase(<<"D", "e", "b", "i", "a", "n">>), <<"U+1F300", " ">>>>,
       <<to_lowercase(<<"D", "r", "a", "g", "o", "n", "F", "l", "y">>), <<"U+1F409", " ">>>>,
       <<to_lowercase(<<"E", "m", "s", "c", "r", "i", "p", "t", "e", "n">>), <<"U+1F517", " ">>>>,
       <<to_lowercase(<<"E", "n", "d", "e", "a", "v", "o", "u", "r", "O", "S">>), <<"U+1F680", " ">>>>,
       <<to_lowercase(<<"F", "e", "d", "o", "r", "a">>), <<"U+1F3A9", " ">>>>,
       <<to_lowercase(<<"F", "r", "e", "e", "B", "S", "D">>), <<"U+1F608", " ">>>>,
       <<to_lowercase(<<"G", "a", "r", "u", "d", "a">>), <<"U+1F985", " ">>>>,
       <<to_lowercase(<<"G", "e", "n", "t", "o", "o">>), <<"U+1F5DC", "U+FE0F", " ">>>>,
       <<to_lowercase(<<"H", "a", "r", "d", "e", "n", "e", "d", "B", "S", "D">>), <<"U+1F6E1", "U+FE0F", " ">>>>,
       <<to_lowercase(<<"I", "l", "l", "u", "m", "o", "s">>), <<"U+1F426", " ">>>>,
       <<to_lowercase(<<"L", "i", "n", "u", "x">>), <<"U+1F427", " ">>>>,
       <<to_lowercase(<<"M", "a", "c", "o", "s">>), <<"U+1F34E", " ">>>>,
       <<to_lowercase(<<"M", "a", "n", "j", "a", "r", "o">>), <<"U+1F96D", " ">>>>,
       <<to_lowercase(<<"M", "a", "r", "i", "n", "e", "r">>), <<"U+1F30A", " ">>>>,
       <<to_lowercase(<<"M", "i", "d", "n", "i", "g", "h", "t", "B", "S", "D">>), <<"U+1F318", " ">>>>,
       <<to_lowercase(<<"M", "i", "n", "t">>), <<"U+1F33F", " ">>>>,
       <<to_lowercase(<<"N", "e", "t", "B", "S", "D">>), <<"U+1F6A9", " ">>>>,
       <<to_lowercase(<<"N", "i", "x", "O", "S">>), <<"U+2744", "U+FE0F", " ">>>>,
       <<to_lowercase(<<"O", "p", "e", "n", "B", "S", "D">>), <<"U+1F421", " ">>>>,
       <<to_lowercase(<<"o", "p", "e", "n", "S", "U", "S", "E">>), <<"U+1F98E", " ">>>>,
       <<to_lowercase(<<"O", "r", "a", "c", "l", "e", "L", "i", "n", "u", "x">>), <<"U+1F9B4", " ">>>>,
       <<to_lowercase(<<"P", "o", "p">>), <<"U+1F36D", " ">>>>,
       <<to_lowercase(<<"R", "a", "s", "p", "b", "i", "a", "n">>), <<"U+1F353", " ">>>>,
       <<to_lowercase(<<"R", "e", "d", "h", "a", "t">>), <<"U+1F3A9", " ">>>>,
       <<to_lowercase(<<"R", "e", "d", "H", "a", "t", "E", "n", "t", "e", "r", "p", "r", "i", "s", "e">>), <<"U+1F3A9", " ">>>>,
       <<to_lowercase(<<"R", "e", "d", "o", "x">>), <<"U+1F9EA", " ">>>>,
       <<to_lowercase(<<"S", "o", "l", "u", "s">>), <<"U+26F5", " ">>>>,
       <<to_lowercase(<<"S", "U", "S", "E">>), <<"U+1F98E", " ">>>>,
       <<to_lowercase(<<"U", "b", "u", "n", "t", "u">>), <<"U+1F3AF", " ">>>>,
       <<to_lowercase(<<"U", "n", "k", "n", "o", "w", "n">>), <<"U+2753", " ">>>>,
       <<to_lowercase(<<"W", "i", "n", "d", "o", "w", "s">>), <<"U+1FA9F", " ">>>> >>

DefaultFormat == "[$symbol]($style)"
DefaultStyle == "bold white"

\* a default configuration that leaves the segment enabled
OSConfigDefaultEnabled ==
    [ format   |-> DefaultFormat,
      style    |-> DefaultStyle,
      symbols  |-> IndexMapCollect(DefaultSymbolEntries),
      disabled |-> FALSE ]

\* impl Default for OSConfig
OSConfigDefault ==
    [ format   |-> DefaultFormat,
      style    |-> DefaultStyle,
      symbols  |-> IndexMapCollect(DefaultSymbolEntries),
      disabled |-> TRUE ]

\* <IndexMap<String, &str> as Deserialize>::deserialize over the raw TOML
\* table: an entry whose value is not a string is a type error; otherwise the
\* entries are inserted in the document's order.
IndexMapDeserialize(raw) ==
    IF \E i \in 1..Len(raw) : ~raw[i].str
    THEN [ok |-> FALSE, map |-> <<>>]
    ELSE [ok |-> TRUE,
          map |-> IndexMapCollect([i \in 1..Len(raw) |-> <<raw[i].k, raw[i].v>>])]

\* deserialize_symbols with the keys collected as the author wrote them
deserialize_symbols_keep_case(raw) ==
    LET r == IndexMapDeserialize(raw)
    IN  [ok |-> r.ok, map |-> IndexMapCollect(r.map)]

\* deserialize_symbols with colliding keys keeping the first value
deserialize_symbols_first_wins(raw) ==
    LET r == IndexMapDeserialize(raw)
    IN  [ok |-> r.ok,
         map |-> IndexMapCollectKeepFirst([i \in 1..Len(r.map) |->
                                            <<to_lowercase(r.map[i][1]), r.map[i][2]>>])]

\* deserialize_symbols: lowercase every key, keep every value, collect again
deserialize_symbols(raw) ==
    LET r == IndexMapDeserialize(raw)
    IN  [ok |-> r.ok,
         map |-> IndexMapCollect([i \in 1..Len(r.map) |->
                                   <<to_lowercase(r.map[i][1]), r.map[i][2]>>])]

\* #[derive(Deserialize)] #[serde(default)] on OSConfig: a field the document
\* leaves out takes its value from OSConfig::default(); symbols goes through
\* deserialize_symbols.  Result<OSConfig, Error> as [ok, cfg].
OSConfigDeserialize(doc) ==
    LET d == OSConfigDefault
        s == IF IsSome(doc.symbols) THEN deserialize_symbols(Unwrap(doc.symbols))
             ELSE [ok |-> TRUE, map |-> d.symbols]
    IN  [ok  |-> s.ok,
         cfg |-> [ format   |-> IF IsSome(doc.format) THEN Unwrap(doc.format) ELSE d.format,
                   style    |-> IF IsSome(doc.style) THEN Unwrap(doc.style) ELSE d.style,
                   symbols  |-> s.map,
                   disabled |-> IF IsSome(doc.disabled) THEN Unwrap(doc.disabled)
                                ELSE d.disabled ]]

\* OSConfig::get_symbol(&self, key): lowercases the key before the lookup
OSConfig_get_symbol(cfg, key) == IndexMapGet(cfg.symbols, to_lowercase(key))

(***************************** modules/os.rs *******************************)
\* get_symbol: the Debug text of the type, looked up as it is in the
\* configuration's table and then in the default table
get_symbol(cfg, info) ==
    LET key == TypeDebug(info.os_type)
        own == IndexMapGet(cfg.symbols, key)
    IN  IF IsSome(own) THEN own ELSE IndexMapGet(OSConfigDefault.symbols, key)

\* os_info: Display for Bitness
BitnessDisplay(b) ==
    CASE b = "Unknown" -> <<"u", "n", "k", "n", "o", "w", "n", " ", "b", "i", "t", "n", "e", "s", "s">>
      [] b = "X32"     -> <<"3", "2", "-", "b", "i", "t">>
      [] b = "X64"     -> <<"6", "4", "-", "b", "i", "t">>

Digits == <<"0", "1", "2", "3", "4", "5", "6", "7", "8", "9">>

\* Display for u64
RECURSIVE U64Display(_)
U64Display(n) ==
    IF n < 10 THEN <<Digits[n + 1]>>
    ELSE U64Display(n \div 10) \o <<Digits[(n % 10) + 1]>>

\* os_info::Version: Unknown | Semantic(major, minor, patch) |
\* Rolling(Option<String>) | Custom(String), as [kind, nums, text]
VersionUnknown == [kind |-> "Unknown", nums |-> <<>>, text |-> None]
VersionSemantic(a, b, c) == [kind |-> "Semantic", nums |-> <<a, b, c>>, text |-> None]
VersionRolling(date) == [kind |-> "Rolling", nums |-> <<>>, text |-> date]
VersionCustom(s) == [kind |-> "Custom", nums |-> <<>>, text |-> Some(s)]

\* os_info: Display for Version
VersionDisplay(v) ==
    CASE v.kind = "Unknown"  -> <<"U", "n", "k", "n", "o", "w", "n">>
      [] v.kind = "Semantic" ->
            U64Display(v.nums[1]) \o <<".">> \o U64Display(v.nums[2]) \o <<".">>
                \o U64Display(v.nums[3])
      [] v.kind = "Rolling"  ->
            <<"R", "o", "l", "l", "i", "n", "g", " ", "R", "e", "l", "e", "a", "s", "e">>
                \o (IF IsSome(v.text) THEN <<" ", "(">> \o Unwrap(v.text) \o <<")">>
                    ELSE <<>>)
      [] v.kind = "Custom"   -> Unwrap(v.text)

\* os_info: Display for Type; a type without a display name of its own prints
\* its Debug text
TypeDisplayTable ==
    [ Alpine |-> <<"A", "l", "p", "i", "n", "e", " ", "L", "i", "n", "u", "x">>,
      Amazon |-> <<"A", "m", "a", "z", "o", "n", " ", "L", "i", "n", "u", "x", " ", "A", "M", "I">>,
      Arch |-> <<"A", "r", "c", "h", " ", "L", "i", "n", "u", "x">>,
      DragonFly |-> <<"D", "r", "a", "g", "o", "n", "F", "l", "y", " ", "B", "S", "D">>,
      Garuda |-> <<"G", "a", "r", "u", "d", "a", " ", "L", "i", "n", "u", "x">>,
      Gentoo |-> <<"G", "e", "n", "t", "o", "o", " ", "L", "i", "n", "u", "x">>,
      Illumos |-> <<"i", "l", "l", "u", "m", "o", "s">>,
      Macos |-> <<"M", "a", "c", " ", "O", "S">>,
      MidnightBSD |-> <<"M", "i", "d", "n", "i", "g", "h", "t", " ", "B", "S", "D">>,
      Mint |-> <<"L", "i", "n", "u", "x", " ", "M", "i", "n", "t">>,
      Pop |-> <<"P", "o", "p", "!", "_", "O", "S">>,
      Raspbian |-> <<"R", "a", "s", "p", "b", "e", "r", "r", "y", " ", "P", "i", " ", "O", "S">>,
      Redhat |-> <<"R", "e", "d", " ", "H", "a", "t", " ", "L", "i", "n", "u", "x">>,
      RedHatEnterprise |-> <<"R", "e", "d", " ", "H", "a", "t", " ", "E", "n", "t", "e", "r", "p", "r", "i", "s", "e", " ", "L", "i", "n", "u", "x">>,
      SUSE |-> <<"S", "U", "S", "E", " ", "L", "i", "n", "u", "x", " ", "E", "n", "t", "e", "r", "p", "r", "i", "s", "e", " ", "S", "e", "r", "v", "e", "r">> ]

TypeDisplay(t) ==
    IF t \in DOMAIN TypeDisplayTable THEN TypeDisplayTable[t] ELSE TypeDebug(t)

\* os_info::Info
Info(t, b, v, c, e) ==
    [os_type |-> t, bitness |-> b, version |-> v, codename |-> c, edition |-> e]

\* os_info::Info::with_type(t); Info::unknown() and Info::default() are
\* with_type(Type::Unknown)
InfoWithType(t) == Info(t, "Unknown", VersionUnknown, None, None)

\* get_bitness without the filter
get_bitness_unfiltered(info) == Some(BitnessDisplay(info.bitness))

\* get_bitness
get_bitness(info) ==
    IF info.bitness # "Unknown" THEN Some(BitnessDisplay(info.bitness)) ELSE None

\* get_codename
get_codename(info) == info.codename

\* get_edition
get_edition(info) == info.edition

\* get_name
get_name(info) == Some(TypeDisplay(info.os_type))

\* get_type
get_type(info) == Some(TypeDebug(info.os_type))

\* get_version
get_version(info) ==
    IF info.version # VersionUnknown THEN Some(VersionDisplay(info.version)) ELSE None

(********************************* inputs **********************************)
MaxRaw == 2            \* entries in a raw [os.symbols] table
MaxVersionPart == 1    \* largest small component of a semantic version

\* keys an author may write: casings of three identifiers of the enumeration
RawKeys ==
    { <<"A", "r", "c", "h">>, <<"a", "r", "c", "h">>,
      <<"U", "n", "k", "n", "o", "w", "n">>, <<"U", "N", "K", "N", "O", "W", "N">>,
      <<"o", "p", "e", "n", "S", "U", "S", "E">> }

\* symbols an author may write; "" is a symbol like any other
RawSymbols == { <<>>, <<"X">>, <<"y", " ">> }

\* one key = value line; str = FALSE is a value that is not a TOML string
RawEntries ==
    { [k |-> k, v |-> v, str |-> TRUE] : k \in RawKeys, v \in RawSymbols }
        \cup { [k |-> k, v |-> <<>>, str |-> FALSE] : k \in RawKeys }

\* a TOML table: its keys are distinct as written
RECURSIVE RawTablesOfLen(_)
RawTablesOfLen(n) ==
    IF n = 0 THEN { <<>> }
    ELSE { Append(r, e) : r \in RawTablesOfLen(n - 1), e \in RawEntries }

DistinctKeys(r) == \A i, j \in 1..Len(r) : i # j => r[i].k # r[j].k

RawTables ==
    { r \in UNION { RawTablesOfLen(n) : n \in 0..MaxRaw } : DistinctKeys(r) }

Doc(f, st, sy, d) == [format |-> f, style |-> st, symbols |-> sy, disabled |-> d]

\* documents that set nothing but [symbols], as the tests of get_symbol load
SymbolDocs ==
    { Doc(None, None, sy, None) : sy \in {None} \cup { Some(r) : r \in RawTables } }

VersionParts == 0..MaxVersionPart \cup {12}

Versions ==
    { VersionUnknown, VersionRolling(None),
      VersionRolling(Some(<<"2", "0", "2", "2", ".", "1", "0">>)),
      VersionCustom(<<"U", "n", "k", "n", "o", "w", "n">>),
      VersionCustom(<<"j", "a", "m", "m", "y">>) }
        \cup { VersionSemantic(a, b, c) : a, b, c \in VersionParts }

Bitnesses == { "Unknown", "X32", "X64" }

AccessorInfos ==
    { Info(t, b, v, c, e) :
        t \in { "Unknown", "Arch", "Macos" }, b \in Bitnesses, v \in Versions,
        c \in { None, Some(<<"j", "a", "m", "m", "y">>) },
        e \in { None, Some(<<"P", "r", "o">>) } }

(**************** pure functions applied to drawn inputs *******************)
Idle ==
    /\ called = "" /\ result = None /\ readerCalls = 0 /\ formatter = None
    /\ parsed = None /\ trace = <<>> /\ segments = None /\ ret = None
    /\ warnings = 0

\* OSConfig::load(&config_toml) followed by get_symbol(&config, &Info::with_type(t))
InitSymbols ==
    /\ pc = "input"
    /\ rawcfg \in SymbolDocs
    /\ config = None
    /\ host \in { InfoWithType(t) : t \in Types }
    /\ os = None
    /\ Idle

LoadSymbols ==
    /\ pc = "input"
    /\ LET r == OSConfigDeserialize(rawcfg)
       IN  /\ config' = IF r.ok THEN Some(r.cfg) ELSE None
           /\ pc' = IF r.ok THEN "loaded" ELSE "load_error"
    /\ UNCHANGED <<rawcfg, host, os, called, result, readerCalls, formatter, parsed,
                   trace, segments, ret, warnings>>

CallGetSymbol ==
    /\ pc = "loaded"
    /\ called' = "get_symbol"
    /\ result' = get_symbol(Unwrap(config), host)
    /\ pc' = "resolved"
    /\ UNCHANGED <<rawcfg, host, config, os, readerCalls, formatter, parsed, trace,
                   segments, ret, warnings>>

NextSymbols == LoadSymbols \/ CallGetSymbol

SpecSymbols == InitSymbols /\ [][NextSymbols]_vars

\* the attribute accessors applied to a descriptor
InitAccessors ==
    /\ pc = "input"
    /\ rawcfg = Doc(None, None, None, None)
    /\ config = None
    /\ host \in AccessorInfos
    /\ os = None
    /\ Idle

Call(name, value) ==
    /\ pc = "input"
    /\ called' = name
    /\ result' = value
    /\ pc' = "resolved"
    /\ UNCHANGED <<rawcfg, host, config, os, readerCalls, formatter, parsed, trace,
                   segments, ret, warnings>>

CallGetBitness == Call("get_bitness", get_bitness(host))
CallGetCodename == Call("get_codename", get_codename(host))
CallGetEdition == Call("get_edition", get_edition(host))
CallGetName == Call("get_name", get_name(host))
CallGetType == Call("get_type", get_type(host))
CallGetVersion == Call("get_version", get_version(host))

NextAccessors ==
    \/ CallGetBitness
    \/ CallGetCodename
    \/ CallGetEdition
    \/ CallGetName
    \/ CallGetType
    \/ CallGetVersion

SpecAccessors == InitAccessors /\ [][NextAccessors]_vars

(*********************** crate::formatter::StringFormatter *****************)
\* A parsed format: items in textual order, [kind, name, text] with kind
\* "text" (literal), "var" ($name) or "cond" (($name text), shown only when
\* the variable has a non-empty value); the style of the enclosing text group;
\* and the two variable maps (BTreeMap: sorted by name), every value unset.
Text(s) == [kind |-> "text", name |-> "", text |-> s]
Var(n) == [kind |-> "var", name |-> n, text |-> <<>>]
Cond(n, s) == [kind |-> "cond", name |-> n, text |-> s]
Unset(names) == [i \in 1..Len(names) |-> [name |-> names[i], value |-> None]]

AllSegmentsFormat ==
    "[$symbol($bitness )($codename )($edition )($name )($type )($version )]($style)"
UnclosedFormat == "[$symbol($style)"
PlainFormat == "on $type($version)$arch"

FormatterOf(items, style, names, styleNames) ==
    [ok |-> TRUE,
     formatter |-> [items |-> items, style |-> style, variables |-> Unset(names),
                    style_variables |-> Unset(styleNames)]]

\* StringFormatter::new(format): Err for a format the grammar rejects
StringFormatterNew(f) ==
    CASE f = DefaultFormat ->
            FormatterOf(<<Var("symbol")>>, Some("style"), <<"symbol">>, <<"style">>)
      [] f = AllSegmentsFormat ->
            FormatterOf(<<Var("symbol"), Cond("bitness", <<" ">>),
                          Cond("codename", <<" ">>), Cond("edition", <<" ">>),
                          Cond("name", <<" ">>), Cond("type", <<" ">>),
                          Cond("version", <<" ">>)>>,
                        Some("style"),
                        <<"bitness", "codename", "edition", "name", "symbol", "type",
                          "version">>,
                        <<"style">>)
      [] f = PlainFormat ->
            FormatterOf(<<Text(<<"o", "n", " ">>), Var("type"), Cond("version", <<>>),
                          Var("arch")>>,
                        None, <<"arch", "type", "version">>, <<>>)
      [] OTHER ->
            [ok |-> FALSE,
             formatter |-> [items |-> <<>>, style |-> None, variables |-> <<>>,
                            style_variables |-> <<>>]]

\* characters a format string gives a meaning to
FormatSpecialChars == { "$", "[", "]", "(", ")", "\\" }

\* a meta variable's value is itself parsed as a format string
MetaFormatOk(s) == \A i \in 1..Len(s) : s[i] \notin FormatSpecialChars

Ok(t) == [ok |-> TRUE, text |-> t]

\* map, map_meta, map_style: the mapper is applied to every variable that has
\* no value yet and its answer stored
Names(variables) == { variables[i].name : i \in 1..Len(variables) }
MapUnset(variables, answer) ==
    [i \in 1..Len(variables) |->
        IF variables[i].value = None
        THEN [name |-> variables[i].name, value |-> answer[variables[i].name]]
        ELSE variables[i]]


ValueOf(variables, n) ==
    LET i == CHOOSE i \in 1..Len(variables) : variables[i].name = n
    IN  variables[i].value

\* the text one item contributes: None when it contributes nothing
ItemText(fm, item) ==
    IF item.kind = "text" THEN Some(item.text)
    ELSE LET v == ValueOf(fm.variables, item.name)
         IN  IF ~IsSome(v) THEN None
             ELSE IF item.kind = "var" THEN Some(Unwrap(v).text)
             ELSE IF Unwrap(v).text = <<>> THEN None
             ELSE Some(Unwrap(v).text \o item.text)

\* the style of the text group: the value the style variable was given
StyleOf(fm) ==
    IF ~IsSome(fm.style) THEN None
    ELSE LET v == ValueOf(fm.style_variables, Unwrap(fm.style))
         IN  IF IsSome(v) THEN Some(Unwrap(v).text) ELSE None

\* StringFormatter::parse: Err when a variable's value is an Err, otherwise
\* one segment per item that contributes text
StringFormatterParse(fm) ==
    IF \E i \in 1..Len(fm.variables) :
          IsSome(fm.variables[i].value) /\ ~Unwrap(fm.variables[i].value).ok
    THEN [ok |-> FALSE, segments |-> <<>>]
    ELSE LET shown == SelectSeq(fm.items, LAMBDA it : IsSome(ItemText(fm, it)))
         IN  [ok |-> TRUE,
              segments |-> [i \in 1..Len(shown) |->
                              [text |-> Unwrap(ItemText(fm, shown[i])),
                               style |-> StyleOf(fm)]]]

(******************************* module() **********************************)
\* the closure given to map_meta
meta_mapper(cfg, info, variable) ==
    IF variable = "symbol" THEN get_symbol(cfg, info) ELSE None

\* the closure given to map_style
style_mapper(cfg, variable) ==
    IF variable = "style" THEN Some(Ok(cfg.style)) ELSE None

\* the closure given to map
variable_mapper(info, variable) ==
    LET o == CASE variable = "bitness"  -> get_bitness(info)
               [] variable = "codename" -> get_codename(info)
               [] variable = "edition"  -> get_edition(info)
               [] variable = "name"     -> get_name(info)
               [] variable = "type"     -> get_type(info)
               [] variable = "version"  -> get_version(info)
               [] OTHER                 -> None
    IN  IF IsSome(o) THEN Some(Ok(Unwrap(o))) ELSE None

AccessorVariables == { "bitness", "codename", "edition", "name", "type", "version" }
AccessorOf(variable) ==
    CASE variable = "symbol"   -> "get_symbol"
      [] variable = "bitness"  -> "get_bitness"
      [] variable = "codename" -> "get_codename"
      [] variable = "edition"  -> "get_edition"
      [] variable = "name"     -> "get_name"
      [] variable = "type"     -> "get_type"
      [] variable = "version"  -> "get_version"

\* the module functions a mapper runs: one per unset variable it recognises
CallsOf(variables, Recognised) ==
    LET hit == SelectSeq(variables,
                         LAMBDA v : v.value = None /\ v.name \in Recognised)
    IN  [i \in 1..Len(hit) |-> AccessorOf(hit[i].name)]

\* configuration documents of a render; each is well typed
RenderSymbolTables ==
    { <<>>,
      << [k |-> <<"U", "n", "k", "n", "o", "w", "n">>, v |-> <<>>, str |-> TRUE] >>,
      << [k |-> <<"A", "r", "c", "h">>, v |-> <<"X">>, str |-> TRUE] >>,
      << [k |-> <<"a", "r", "c", "h">>, v |-> <<"[">>, str |-> TRUE],
         [k |-> <<"A", "r", "c", "h">>, v |-> <<"y", " ">>, str |-> TRUE] >> }

RenderDocs ==
    { Doc(f, st, sy, d) :
        f \in { None, Some(AllSegmentsFormat), Some(UnclosedFormat), Some(PlainFormat) },
        st \in { None, Some("red") },
        sy \in { None } \cup { Some(r) : r \in RenderSymbolTables },
        d \in { None, Some(TRUE), Some(FALSE) } }

\* descriptors the OS attribute reader may return
ReaderInfos ==
    { Info(t, b, v, c, e) :
        t \in { "Unknown", "Arch", "openSUSE" }, b \in Bitnesses,
        v \in { VersionUnknown, VersionSemantic(1, 0, 12),
                VersionCustom(<<"U", "n", "k", "n", "o", "w", "n">>) },
        c \in { None, Some(<<"j", "a", "m", "m", "y">>) },
        e \in { None, Some(<<"P", "r", "o">>) } }

Init ==
    /\ pc = "start"
    /\ rawcfg \in RenderDocs
    /\ host \in ReaderInfos
    /\ config = None
    /\ os = None
    /\ Idle

\* let config: OSConfig = OSConfig::try_load(module.config);
TryLoad ==
    /\ pc = "start"
    /\ config' = Some(OSConfigDeserialize(rawcfg).cfg)
    /\ trace' = Append(trace, "try_load")
    /\ pc' = "loaded"
    /\ UNCHANGED <<rawcfg, host, os, called, result, readerCalls, formatter, parsed,
                   segments, ret, warnings>>

\* if config.disabled { return None; }
ReturnDisabled ==
    /\ pc = "loaded"
    /\ Unwrap(config).disabled
    /\ ret' = None
    /\ pc' = "done"
    /\ UNCHANGED <<rawcfg, host, config, os, called, result, readerCalls, formatter,
                   parsed, trace, segments, warnings>>

\* the reader queried before disabled is looked at
QueryReaderUnguarded ==
    /\ pc = "loaded"
    /\ os' = Some(host)
    /\ readerCalls' = readerCalls + 1
    /\ trace' = Append(trace, "os_info::get")
    /\ pc' = IF Unwrap(config).disabled THEN "loaded" ELSE "new"
    /\ readerCalls = 0
    /\ UNCHANGED <<rawcfg, host, config, called, result, formatter, parsed, segments,
                   ret, warnings>>

\* let os = os_info::get();  (Info::default() in a test build): one query,
\* whose answer is the host's descriptor
QueryReader ==
    /\ pc = "loaded"
    /\ ~Unwrap(config).disabled
    /\ os' = Some(host)
    /\ readerCalls' = readerCalls + 1
    /\ trace' = Append(trace, "os_info::get")
    /\ pc' = "new"
    /\ UNCHANGED <<rawcfg, host, config, called, result, formatter, parsed, segments,
                   ret, warnings>>

\* StringFormatter::new(config.format); and_then skips the closure on Err
NewFormatter ==
    /\ pc = "new"
    /\ LET r == StringFormatterNew(Unwrap(config).format)
       IN  IF r.ok
           THEN /\ formatter' = Some(r.formatter)
                /\ parsed' = parsed
                /\ pc' = "map_meta"
           ELSE /\ formatter' = formatter
                /\ parsed' = Some([ok |-> FALSE, segments |-> <<>>])
                /\ pc' = "parsed"
    /\ trace' = Append(trace, "StringFormatter::new")
    /\ UNCHANGED <<rawcfg, host, config, os, called, result, readerCalls, segments,
                   ret, warnings>>

MetaValue(o) ==
    IF IsSome(o) THEN Some([ok |-> MetaFormatOk(Unwrap(o)), text |-> Unwrap(o)])
    ELSE None

\* map_meta with a resolver that queries the reader again
MapMetaRequery ==
    /\ pc = "map_meta"
    /\ LET fm == Unwrap(formatter)
           M == [n \in Names(fm.variables) |->
                    MetaValue(meta_mapper(Unwrap(config), host, n))]
           calls == CallsOf(fm.variables, {"symbol"})
       IN  /\ formatter' = Some([fm EXCEPT !.variables = MapUnset(fm.variables, M)])
           /\ trace' = trace \o calls
           /\ readerCalls' = readerCalls + Len(calls)
    /\ pc' = "map_style"
    /\ UNCHANGED <<rawcfg, host, config, os, called, result, parsed, segments, ret,
                   warnings>>

\* .map_meta(|variable, _| match variable { "symbol" => get_symbol(..), _ => None })
MapMeta ==
    /\ pc = "map_meta"
    /\ LET fm == Unwrap(formatter)
           M == [n \in Names(fm.variables) |->
                    MetaValue(meta_mapper(Unwrap(config), Unwrap(os), n))]
       IN  /\ formatter' = Some([fm EXCEPT !.variables = MapUnset(fm.variables, M)])
           /\ trace' = trace \o CallsOf(fm.variables, {"symbol"})
    /\ pc' = "map_style"
    /\ UNCHANGED <<rawcfg, host, config, os, called, result, readerCalls, parsed,
                   segments, ret, warnings>>

\* .map_style(|variable| match variable { "style" => Some(Ok(config.style)), .. })
MapStyle ==
    /\ pc = "map_style"
    /\ LET fm == Unwrap(formatter)
           M == [n \in Names(fm.style_variables) |-> style_mapper(Unwrap(config), n)]
       IN  formatter' = Some([fm EXCEPT !.style_variables =
                                           MapUnset(fm.style_variables, M)])
    /\ pc' = "map"
    /\ UNCHANGED <<rawcfg, host, config, os, called, result, readerCalls, parsed,
                   trace, segments, ret, warnings>>

\* .map(|variable| match variable { "bitness" => get_bitness(&os).map(Ok), .. })
MapVariables ==
    /\ pc = "map"
    /\ LET fm == Unwrap(formatter)
           M == [n \in Names(fm.variables) |-> variable_mapper(Unwrap(os), n)]
       IN  /\ formatter' = Some([fm EXCEPT !.variables = MapUnset(fm.variables, M)])
           /\ trace' = trace \o CallsOf(fm.variables, AccessorVariables)
    /\ pc' = "parse"
    /\ UNCHANGED <<rawcfg, host, config, os, called, result, readerCalls, parsed,
                   segments, ret, warnings>>

\* .parse(None, Some(context))
Parse ==
    /\ pc = "parse"
    /\ parsed' = Some(StringFormatterParse(Unwrap(formatter)))
    /\ trace' = Append(trace, "parse")
    /\ pc' = "parsed"
    /\ UNCHANGED <<rawcfg, host, config, os, called, result, readerCalls, formatter,
                   segments, ret, warnings>>

\* set_segments run on whatever the formatter left behind
SetSegmentsUnchecked ==
    /\ pc = "parsed"
    /\ segments' = Some(Unwrap(parsed).segments)
    /\ trace' = Append(trace, "set_segments")
    /\ pc' = "return"
    /\ UNCHANGED <<rawcfg, host, config, os, called, result, readerCalls, formatter,
                   parsed, ret, warnings>>

\* module.set_segments(match parsed { Ok(segments) => segments, .. });
SetSegments ==
    /\ pc = "parsed"
    /\ Unwrap(parsed).ok
    /\ segments' = Some(Unwrap(parsed).segments)
    /\ trace' = Append(trace, "set_segments")
    /\ pc' = "return"
    /\ UNCHANGED <<rawcfg, host, config, os, called, result, readerCalls, formatter,
                   parsed, ret, warnings>>

\* Err(error) => { log::warn!(..); return None; }
WarnAndReturn ==
    /\ pc = "parsed"
    /\ ~Unwrap(parsed).ok
    /\ warnings' = warnings + 1
    /\ trace' = Append(trace, "log::warn")
    /\ ret' = None
    /\ pc' = "done"
    /\ UNCHANGED <<rawcfg, host, config, os, called, result, readerCalls, formatter,
                   parsed, segments>>

\* Some(module)
ReturnModule ==
    /\ pc = "return"
    /\ ret' = Some([name |-> "os", segments |-> Unwrap(segments)])
    /\ pc' = "done"
    /\ UNCHANGED <<rawcfg, host, config, os, called, result, readerCalls, formatter,
                   parsed, trace, segments, warnings>>

Next ==
    \/ TryLoad
    \/ ReturnDisabled
    \/ QueryReader
    \/ NewFormatter
    \/ MapMeta
    \/ MapStyle
    \/ MapVariables
    \/ Parse
    \/ SetSegments
    \/ WarnAndReturn
    \/ ReturnModule

Spec == Init /\ [][Next]_vars

(****************************** properties *********************************)
\* casing, stated on the characters themselves
IsUpperChar(c) == \E i \in 1..Len(UpperChars) : UpperChars[i] = c
SameLetter(a, b) ==
    \/ a = b
    \/ \E i \in 1..Len(UpperChars) : {a, b} = {UpperChars[i], LowerChars[i]}
SameKeyAnyCase(s, t) ==
    /\ Len(s) = Len(t)
    /\ \A i \in 1..Len(s) : SameLetter(s[i], t[i])
HasNoUpper(s) == \A i \in 1..Len(s) : ~IsUpperChar(s[i])

UserTable == IF IsSome(rawcfg.symbols) THEN Unwrap(rawcfg.symbols) ELSE <<>>
\* the lines of the user's table written for the key s, under any casing
LinesFor(s) == { i \in 1..Len(UserTable) : SameKeyAnyCase(UserTable[i].k, s) }
LastLineFor(s) == CHOOSE i \in LinesFor(s) : \A j \in LinesFor(s) : j <= i
\* the symbol the default table's literal gives for the key s
DefaultLinesFor(s) ==
    { i \in 1..Len(DefaultSymbolEntries) : SameKeyAnyCase(DefaultSymbolEntries[i][1], s) }
DefaultSymbolFor(s) == DefaultSymbolEntries[CHOOSE i \in DefaultLinesFor(s) : TRUE][2]

Resolved == pc = "resolved" /\ called = "get_symbol"
HostKey == TypeDebug(host.os_type)

\* C1: override precedence: when the user's table has an entry for the host's
\* OS identifier under any casing, get_symbol returns Some of the user's value
\* (also when it is ""), never the default and never None.
C1_OverridePrecedence ==
    (Resolved /\ LinesFor(HostKey) # {})
        => result = Some(UserTable[LastLineFor(HostKey)].v)

\* C2: default fallback: for an OS identifier the user's table does not
\* override, get_symbol returns Some of the default table's symbol for it.
C2_DefaultFallback ==
    (Resolved /\ LinesFor(HostKey) = {})
        => /\ DefaultLinesFor(HostKey) # {}
           /\ result = Some(DefaultSymbolFor(HostKey))

\* the same table with every key written in another casing
RECURSIVE Recasings(_)
Recasings(r) ==
    IF r = <<>> THEN { <<>> }
    ELSE LET last == r[Len(r)]
         IN  { Append(p, e) :
                 p \in Recasings(SubSeq(r, 1, Len(r) - 1)),
                 e \in { x \in RawEntries : /\ SameKeyAnyCase(x.k, last.k)
                                            /\ x.v = last.v
                                            /\ x.str = last.str } }

ResolveWith(table) ==
    LET r == OSConfigDeserialize(Doc(rawcfg.format, rawcfg.style, Some(table),
                                     rawcfg.disabled))
    IN  IF r.ok THEN get_symbol(r.cfg, host) ELSE None

\* C3: case-insensitivity of configuration keys: get_symbol returns the same
\* result whichever casing the user's table was written in.
C3_CaseInsensitiveKeys ==
    (Resolved /\ IsSome(rawcfg.symbols))
        => \A t \in Recasings(UserTable) :
              DistinctKeys(t) => ResolveWith(t) = result

C3_Witness ==
    /\ Resolved
    /\ LinesFor(HostKey) # {}
    /\ \E t \in Recasings(UserTable) :
          /\ DistinctKeys(t)
          /\ \E i \in LinesFor(HostKey) : t[i].k # UserTable[i].k

Loaded == pc \in {"loaded", "resolved"} /\ IsSome(rawcfg.symbols)
WellTyped == \A i \in 1..Len(UserTable) : UserTable[i].str
Collide(i, j) ==
    /\ i < j
    /\ UserTable[i].k # UserTable[j].k
    /\ SameKeyAnyCase(UserTable[i].k, UserTable[j].k)
    /\ UserTable[i].v # UserTable[j].v
EntriesFor(table, s) == { n \in 1..Len(table) : SameKeyAnyCase(table[n][1], s) }

\* C4: collision last-write-wins: two raw keys that differ only in case give
\* one entry under the lowercase key, holding the later line's value, and
\* loading returns no error.
C4_CollisionLastWriteWins ==
    /\ (pc # "input" /\ WellTyped) => pc # "load_error"
    /\ Loaded =>
         \A i, j \in 1..Len(UserTable) :
            Collide(i, j) =>
               LET table == Unwrap(config).symbols
                   hits == EntriesFor(table, UserTable[i].k)
               IN  /\ Cardinality(hits) = 1
                   /\ \A n \in hits :
                         /\ HasNoUpper(table[n][1])
                         /\ table[n][2] = UserTable[LastLineFor(UserTable[i].k)].v

C4_Witness ==
    /\ Loaded
    /\ \E i, j \in 1..Len(UserTable) : Collide(i, j)

KeysNormalized(table) ==
    /\ \A n \in 1..Len(table) : HasNoUpper(table[n][1])
    /\ \A n, m \in 1..Len(table) :
          n # m => ~SameKeyAnyCase(table[n][1], table[m][1])

\* C5: key normalization (I1): in the default table and in every table built
\* by deserialize_symbols each key is lowercase, no two keys differ only in
\* case, and each value is the author's value, unchanged.
C5_KeysNormalized ==
    pc \in {"loaded", "resolved"} =>
        LET table == Unwrap(config).symbols
        IN  /\ KeysNormalized(table)
            /\ IsSome(rawcfg.symbols) =>
                  /\ \A n \in 1..Len(table) :
                        /\ LinesFor(table[n][1]) # {}
                        /\ table[n][2] = UserTable[LastLineFor(table[n][1])].v
                  /\ \A i \in 1..Len(UserTable) :
                        EntriesFor(table, UserTable[i].k) # {}
            /\ ~IsSome(rawcfg.symbols) =>
                  /\ Len(table) = Len(DefaultSymbolEntries)
                  /\ \A n \in 1..Len(table) :
                        /\ SameKeyAnyCase(table[n][1], DefaultSymbolEntries[n][1])
                        /\ table[n][2] = DefaultSymbolEntries[n][2]

C5_Witness ==
    /\ Loaded
    /\ \E i \in 1..Len(UserTable) :
          /\ ~HasNoUpper(UserTable[i].k)
          /\ ~HasNoUpper(UserTable[i].v)

Done == pc = "done"
Disabled == IsSome(config) /\ Unwrap(config).disabled
Events(names) == { i \in 1..Len(trace) : trace[i] \in names }
AccessorEvents ==
    Events({ "get_symbol", "get_bitness", "get_codename", "get_edition", "get_name",
             "get_type", "get_version" })

\* C6: disabled short-circuit: with disabled = true module() returns None
\* without querying the reader, building or running the formatter, or
\* resolving a symbol, whatever format, style and symbols are.
C6_DisabledShortCircuit ==
    Disabled =>
        /\ readerCalls = 0
        /\ os = None
        /\ formatter = None
        /\ parsed = None
        /\ segments = None
        /\ trace = <<"try_load">>
        /\ ret = None
        /\ warnings = 0
        /\ pc \in {"loaded", "done"}

C6_Witness ==
    /\ Done
    /\ Disabled
    /\ ret = None
    /\ rawcfg.format = Some(UnclosedFormat)
    /\ IsSome(rawcfg.style)
    /\ IsSome(rawcfg.symbols)

FormatterFailed == IsSome(parsed) /\ ~Unwrap(parsed).ok
EndedDisabled == Disabled /\ ret = None /\ warnings = 0 /\ segments = None
EndedRendered ==
    /\ ~Disabled /\ IsSome(ret) /\ warnings = 0
    /\ IsSome(parsed) /\ Unwrap(parsed).ok
    /\ segments = Some(Unwrap(parsed).segments)
    /\ Unwrap(ret).segments = Unwrap(parsed).segments
EndedFailed ==
    ~Disabled /\ FormatterFailed /\ ret = None /\ warnings = 1 /\ segments = None

\* C7: template failure yields no output: a render ends Disabled, Rendered or
\* Failed; when the formatter returns an error one warning is logged, None is
\* returned and set_segments never runs, so segments exist only after the
\* whole template evaluated.
C7_TemplateFailureNoOutput ==
    /\ Done => \/ EndedDisabled /\ ~EndedRendered /\ ~EndedFailed
               \/ EndedRendered /\ ~EndedDisabled /\ ~EndedFailed
               \/ EndedFailed /\ ~EndedDisabled /\ ~EndedRendered
    /\ FormatterFailed =>
          /\ segments = None
          /\ ret = None
          /\ Events({"set_segments"}) = {}
          /\ pc \in {"parsed", "done"}
    /\ IsSome(segments) => IsSome(parsed) /\ Unwrap(parsed).ok
    /\ warnings > 0 => FormatterFailed

C7_Witness ==
    /\ Done
    /\ FormatterFailed
    /\ warnings = 1
    /\ ret = None
    /\ segments = None

EmptyDoc == Doc(None, None, None, None)
UnknownSymbol == <<"U+2753", " ">>

\* C8 as stated: with an empty configuration and a descriptor of unknown type
\* the rendered output is the default "unknown" symbol in the default style.
C8_DefaultRender ==
    (Done /\ rawcfg = EmptyDoc /\ host.os_type = "Unknown")
        => ret = Some([name |-> "os",
                       segments |-> << [text |-> UnknownSymbol,
                                        style |-> Some("bold white")] >>])

\* C8 amended: with an empty configuration the loaded configuration is
\* OSConfig::default() (format "[$symbol]($style)", style "bold white",
\* "unknown" mapped to the question-mark symbol, disabled = true), so the
\* segment renders nothing: module() returns None, the reader is not queried.
C8_DefaultRenderDisabled ==
    (pc # "start" /\ rawcfg = EmptyDoc)
        => /\ Unwrap(config).format = "[$symbol]($style)"
           /\ Unwrap(config).style = "bold white"
           /\ IndexMapGet(Unwrap(config).symbols, <<"u", "n", "k", "n", "o", "w", "n">>)
                 = Some(UnknownSymbol)
           /\ Unwrap(config).disabled
           /\ ret = None
           /\ segments = None
           /\ readerCalls = 0
           /\ pc \in {"loaded", "done"}

C8_Witness ==
    /\ Done
    /\ rawcfg = EmptyDoc
    /\ host.os_type = "Unknown"
    /\ ret = None

UnknownBitnessText ==
    <<"u", "n", "k", "n", "o", "w", "n", " ", "b", "i", "t", "n", "e", "s", "s">>
UnknownVersionText == <<"U", "n", "k", "n", "o", "w", "n">>

BitnessSentinelAbsent ==
    (pc = "resolved" /\ called = "get_bitness")
        => /\ result = None <=> host.bitness = "Unknown"
           /\ host.bitness = "X32" => result = Some(<<"3", "2", "-", "b", "i", "t">>)
           /\ host.bitness = "X64" => result = Some(<<"6", "4", "-", "b", "i", "t">>)
           /\ result # Some(UnknownBitnessText)

VersionSentinelAbsent ==
    (pc = "resolved" /\ called = "get_version")
        => /\ result = None <=> host.version.kind = "Unknown"
           /\ host.version.kind # "Unknown" => result = Some(VersionDisplay(host.version))
           /\ host.version = VersionSemantic(1, 0, 12)
                 => result = Some(<<"1", ".", "0", ".", "1", "2">>)

\* C9 as stated: get_bitness and get_version return None exactly for the
\* Unknown sentinel, otherwise the text, and never the sentinel's own text.
C9_SentinelAsAbsence ==
    /\ BitnessSentinelAbsent
    /\ VersionSentinelAbsent
    /\ (pc = "resolved" /\ called = "get_version") => result # Some(UnknownVersionText)

\* C9 amended: as stated, except that get_version returns the text "Unknown"
\* when, and only when, the reader reported the custom version "Unknown".
C9_SentinelAsAbsenceButCustom ==
    /\ BitnessSentinelAbsent
    /\ VersionSentinelAbsent
    /\ (pc = "resolved" /\ called = "get_version")
          => (result = Some(UnknownVersionText)
                <=> host.version = VersionCustom(UnknownVersionText))

C9_Witness ==
    /\ pc = "resolved"
    /\ called = "get_version"
    /\ host.version = VersionUnknown
    /\ result = None

\* C10: render ordering: with disabled = false the reader is queried exactly
\* once, before any resolver or accessor runs; every resolver and accessor
\* call comes before set_segments and the return; resolution never queries
\* the reader again.
C10_RenderOrdering ==
    /\ Cardinality(Events({"os_info::get"})) = readerCalls
    /\ readerCalls <= 1
    /\ (IsSome(config) /\ ~Disabled /\ pc # "loaded") => readerCalls = 1
    /\ IsSome(os) <=> readerCalls = 1
    /\ \A a \in AccessorEvents : \E q \in Events({"os_info::get"}) : q < a
    /\ \A s \in Events({"set_segments"}) : \A a \in AccessorEvents : a < s
    /\ Cardinality(Events({"set_segments"})) <= 1
    /\ IsSome(ret) => /\ Events({"set_segments"}) # {}
                      /\ trace[Len(trace)] = "set_segments"

C10_Witness ==
    /\ Done
    /\ IsSome(ret)
    /\ readerCalls = 1
    /\ \E i, j, k \in 1..Len(trace) :
          /\ i < j /\ j < k
          /\ trace[i] = "get_symbol"
          /\ trace[j] = "get_version"
          /\ trace[k] = "set_segments"
=============================================================================
